---- MODULE Spec2Model ----
(***************************************************************************)
(* Model of jeopardy-tool (src/src/lib.rs, src/src/main.rs): the game data *)
(* model Game -> Category -> Answer with its validation (is_valid) and     *)
(* random Double Jeopardy tagging (double_jeopardy), and the command       *)
(* surface (main, show, Termination::report).                              *)
(*                                                                         *)
(* Rust indices are 0-based; TLA+ sequences are 1-based, so element i of a *)
(* Vec v is v[i + 1] here.                                                 *)
(***************************************************************************)
EXTENDS Naturals, Sequences, FiniteSets, TLC

VARIABLES
    game,     \* the JeopardyGame under test: [categories |-> Seq(category)]
    calls,    \* number of double_jeopardy calls made so far
    op,       \* the last call: "none", "game" or "category"
    trace,    \* the Category::double_jeopardy invocations of the last call:
              \* a sequence of [cat |-> index, picks |-> Seq(answer index)]
    result,   \* the last is_valid call and the value it returned
    pc,       \* position of the process: "main", the statements of show,
              \* "returned" (main has returned, report not yet run), "exited"
    cmd,      \* the parsed command line (enum CLI)
    shown,    \* the local jeopardy_game of show
    ret,      \* the ToolResult main returned
    stdout,   \* lines printed to standard output
    stderr,   \* lines printed to standard error
    status    \* exit status of the process

gameVars == <<game, calls, op, trace>>

cliVars == <<pc, cmd, shown, ret, stdout, stderr, status>>

vars == <<game, calls, op, trace, result, pc, cmd, shown, ret, stdout, stderr, status>>

(***************************************************************************)
(* Program constants.                                                      *)
(***************************************************************************)
GameCategories == 5      \* lib.rs:57  self.categories.len() == 5
CategoryAnswers == 5     \* lib.rs:80  self.answers.len() == 5
GameTake == 2            \* lib.rs:65  indices.iter().take(2)
CategoryTake == 2        \* lib.rs:88  indices.iter().take(2)

(***************************************************************************)
(* Bounds of the model.                                                    *)
(***************************************************************************)
MaxCats == 6     \* most categories of a game that is mutated
MaxAns == 6      \* most answers of a category that is mutated
MaxCalls == 2    \* most double_jeopardy calls in a row (on small games)

Min(a, b) == IF a < b THEN a ELSE b
Max(a, b) == IF a < b THEN b ELSE a

(***************************************************************************)
(* Data model: enum JeopardyAnswer, struct JeopardyCategory, JeopardyGame. *)
(***************************************************************************)
Variants == <<"Text", "Image", "Audio", "Video">>

Text(answer, question, dj) ==
    [variant |-> "Text", answer |-> answer, question |-> question,
     double_jeopardy |-> dj]

Image(question, image, dj) ==
    [variant |-> "Image", question |-> question, image |-> image,
     double_jeopardy |-> dj]

Audio(question, audio, dj) ==
    [variant |-> "Audio", question |-> question, audio |-> audio,
     double_jeopardy |-> dj]

Video(question, video, dj) ==
    [variant |-> "Video", question |-> question, video |-> video,
     double_jeopardy |-> dj]

JeopardyCategory(name, answers) == [name |-> name, answers |-> answers]

JeopardyGame(categories) == [categories |-> categories]

\* JeopardyGame::new()
NewGame == JeopardyGame(<<>>)

(***************************************************************************)
(* is_valid at the three levels.                                           *)
(***************************************************************************)
\* variant of AnswerIsValid: an answer already flagged is rejected
AnswerIsValidUnflagged(a) == ~a.double_jeopardy

AnswerIsValid(a) ==
    CASE a.variant = "Text" -> TRUE
      [] a.variant = "Image" -> TRUE
      [] a.variant = "Audio" -> TRUE
      [] a.variant = "Video" -> TRUE

CategoryIsValid(c) ==
    /\ Len(c.answers) = CategoryAnswers
    /\ \A k \in 1..Len(c.answers) : AnswerIsValid(c.answers[k])

\* variant of GameIsValid: the categories are counted but not checked
GameIsValidCountOnly(g) == Len(g.categories) = GameCategories

\* variant of GameIsValid: the categories are checked but not counted
GameIsValidCategoriesOnly(g) ==
    \A k \in 1..Len(g.categories) : CategoryIsValid(g.categories[k])

GameIsValid(g) ==
    /\ Len(g.categories) = GameCategories
    /\ \A k \in 1..Len(g.categories) : CategoryIsValid(g.categories[k])

(***************************************************************************)
(* Random selection: (0..len).collect(), shuffle, iter().take(2).          *)
(***************************************************************************)
\* (0..n).collect::<Vec<_>>()
Indices(n) == [k \in 1..n |-> k - 1]

RECURSIVE Orders(_)
\* every ordering of the finite set S, as a sequence
Orders(S) ==
    IF S = {} THEN {<<>>}
    ELSE UNION {{<<x>> \o p : p \in Orders(S \ {x})} : x \in S}

\* variant of Shuffle: every position drawn independently, with replacement
ShuffleWithReplacement(s) ==
    {[k \in 1..Len(s) |-> s[p[k]]] : p \in [1..Len(s) -> 1..Len(s)]}

\* slice.shuffle(&mut rng): the outcomes are the permutations of the slice
Shuffle(s) == {[k \in 1..Len(s) |-> s[p[k]]] : p \in Orders(1..Len(s))}

\* variant of Take: one element too many
TakeInclusive(s, n) == SubSeq(s, 1, Min(n + 1, Len(s)))

\* iter().take(n)
Take(s, n) == SubSeq(s, 1, Min(n, Len(s)))

MaxIdx == Max(MaxCats, MaxAns)

\* the index lists the loop of JeopardyGame::double_jeopardy can iterate over
GameSelectionTable ==
    [n \in 0..MaxIdx |-> {Take(s, GameTake) : s \in Shuffle(Indices(n))}]

\* the index lists the loop of JeopardyCategory::double_jeopardy can iterate over
CategorySelectionTable ==
    [n \in 0..MaxIdx |-> {Take(s, CategoryTake) : s \in Shuffle(Indices(n))}]

GameSelections(g) == GameSelectionTable[Len(g.categories)]

CategorySelections(c) == CategorySelectionTable[Len(c.answers)]

(***************************************************************************)
(* double_jeopardy.                                                        *)
(***************************************************************************)
\* variant of SetDoubleJeopardy: the Video arm leaves the flag alone
SetDoubleJeopardyNoVideo(a) ==
    CASE a.variant = "Text" -> [a EXCEPT !.double_jeopardy = TRUE]
      [] a.variant = "Image" -> [a EXCEPT !.double_jeopardy = TRUE]
      [] a.variant = "Audio" -> [a EXCEPT !.double_jeopardy = TRUE]
      [] a.variant = "Video" -> a

\* the match of lib.rs:89-110 on one answer: every arm sets the flag
SetDoubleJeopardy(a) ==
    CASE a.variant = "Text" -> [a EXCEPT !.double_jeopardy = TRUE]
      [] a.variant = "Image" -> [a EXCEPT !.double_jeopardy = TRUE]
      [] a.variant = "Audio" -> [a EXCEPT !.double_jeopardy = TRUE]
      [] a.variant = "Video" -> [a EXCEPT !.double_jeopardy = TRUE]

\* variant of FlagAnswers: the loop stops after the first taken index
FlagAnswersFirstOnly(answers, picks) ==
    IF picks = <<>> THEN answers
    ELSE [answers EXCEPT ![Head(picks) + 1] = SetDoubleJeopardy(@)]

RECURSIVE FlagAnswers(_, _)
\* the loop of JeopardyCategory::double_jeopardy over the taken indices
FlagAnswers(answers, picks) ==
    IF picks = <<>> THEN answers
    ELSE FlagAnswers(
            [answers EXCEPT ![Head(picks) + 1] = SetDoubleJeopardy(@)],
            Tail(picks))

\* variant of CategoryDoubleJeopardy: the flags are cleared before the new
\* ones are set
CategoryDoubleJeopardyReset(c, picks) ==
    [c EXCEPT !.answers =
        [k \in 1..Len(c.answers) |->
            [c.answers[k] EXCEPT !.double_jeopardy =
                \E i \in 1..Len(picks) : picks[i] + 1 = k]]]

\* variant of CategoryDoubleJeopardy: each picked answer is removed and
\* pushed back flagged, so the picked answers move to the end
CategoryDoubleJeopardyMove(c, picks) ==
    LET n == Len(c.answers)
        picked == {picks[i] + 1 : i \in 1..Len(picks)} \cap (1..n)
        IsKept(k) == k \notin picked
        kept == SelectSeq([k \in 1..n |-> k], IsKept)
        moved == [i \in 1..Len(picks) |->
                    [c.answers[picks[i] + 1] EXCEPT !.double_jeopardy = TRUE]]
    IN  [c EXCEPT !.answers = [i \in 1..Len(kept) |-> c.answers[kept[i]]] \o moved]

\* JeopardyCategory::double_jeopardy with the random choice picks
CategoryDoubleJeopardy(c, picks) ==
    [c EXCEPT !.answers = FlagAnswers(c.answers, picks)]

RECURSIVE MutateCategories(_, _)
\* the loop of JeopardyGame::double_jeopardy over the invocations tr
MutateCategories(categories, tr) ==
    IF tr = <<>> THEN categories
    ELSE MutateCategories(
            [categories EXCEPT
                ![Head(tr).cat + 1] = CategoryDoubleJeopardy(@, Head(tr).picks)],
            Tail(tr))

RECURSIVE Invocations(_, _)
\* the invocations a Game call can make for the category choice sel: one per
\* selected index, in order, each with its own random choice of answers
Invocations(g, sel) ==
    IF sel = <<>> THEN {<<>>}
    ELSE {<<[cat |-> Head(sel), picks |-> p]>> \o rest :
            p \in CategorySelections(g.categories[Head(sel) + 1]),
            rest \in Invocations(g, Tail(sel))}

\* JeopardyGame::double_jeopardy making the invocations tr
GameDoubleJeopardy(g, tr) ==
    [g EXCEPT !.categories = MutateCategories(@, tr)]

(***************************************************************************)
(* Inputs.  A Rust String is a sequence of one-character strings.          *)
(***************************************************************************)
\* answer ai of category ci: the variants rotate (shifted by seed) so that
\* every category of four or more answers mixes all four
MakeAnswer(ci, ai, seed, dj) ==
    LET v == Variants[((ci + ai + seed) % 4) + 1]
        q == <<"q", ToString(ai)>>
        p == <<"a", ToString(ai)>>
    IN  CASE v = "Text" -> Text(p, q, dj)
          [] v = "Image" -> Image(q, p, dj)
          [] v = "Audio" -> Audio(q, p, dj)
          [] v = "Video" -> Video(q, p, dj)

\* a category of n unflagged answers
MakeCategory(ci, n) ==
    JeopardyCategory(<<"C", ToString(ci)>>,
                     [k \in 1..n |-> MakeAnswer(ci, k - 1, 0, FALSE)])

\* a game of nc categories of na answers each, no answer flagged
Board(nc, na) == JeopardyGame([k \in 1..nc |-> MakeCategory(k - 1, na)])

\* five categories named A..E of five Text answers a{i}/q{i}, none flagged
ScenarioBoard ==
    JeopardyGame(
        [k \in 1..5 |->
            JeopardyCategory(<<(<<"A", "B", "C", "D", "E">>)[k]>>,
                [i \in 1..5 |->
                    Text(<<"a", ToString(i)>>, <<"q", ToString(i)>>, FALSE)])])

\* the number of calls made on game g: MaxCalls on the games small enough to
\* explore call sequences on (up to one category and one answer more than a
\* call takes), one on the larger ones
CallBound(g) ==
    IF /\ Len(g.categories) <= GameTake + 1
       /\ \A k \in 1..Len(g.categories) :
             Len(g.categories[k].answers) <= CategoryTake + 1
    THEN MaxCalls
    ELSE 1

NoResult == [fn |-> "none"]

GameIdle ==
    /\ calls = 0
    /\ op = "none"
    /\ trace = <<>>

CliIdle ==
    /\ pc = "idle"
    /\ cmd = [sub |-> "none"]
    /\ shown = NewGame
    /\ ret = [tag |-> "none"]
    /\ stdout = <<>>
    /\ stderr = <<>>
    /\ status = "running"

(***************************************************************************)
(* Spec: sequences of double_jeopardy calls on a game.                     *)
(***************************************************************************)
Init ==
    /\ \/ \E nc \in 0..MaxCats, na \in 0..MaxAns : game = Board(nc, na)
       \/ game = ScenarioBoard
    /\ GameIdle
    /\ result = NoResult
    /\ CliIdle

\* JeopardyGame::double_jeopardy
GameCall ==
    /\ calls < CallBound(game)
    /\ \E sel \in GameSelections(game) :
         \E tr \in Invocations(game, sel) :
            /\ game' = GameDoubleJeopardy(game, tr)
            /\ trace' = tr
    /\ op' = "game"
    /\ calls' = calls + 1
    /\ UNCHANGED <<result, cliVars>>

\* JeopardyCategory::double_jeopardy on category ci of the game
CategoryCall(ci) ==
    /\ calls < CallBound(game)
    /\ \E picks \in CategorySelections(game.categories[ci + 1]) :
         /\ game' = [game EXCEPT
                        !.categories[ci + 1] = CategoryDoubleJeopardy(@, picks)]
         /\ trace' = <<[cat |-> ci, picks |-> picks]>>
    /\ op' = "category"
    /\ calls' = calls + 1
    /\ UNCHANGED <<result, cliVars>>

Next ==
    \/ GameCall
    \/ \E ci \in 0..(Len(game.categories) - 1) : CategoryCall(ci)

Spec == Init /\ [][Next]_vars

(***************************************************************************)
(* SpecValid: is_valid applied to games of every shape.                    *)
(***************************************************************************)
\* a category of n answers whose variants and flags vary with seed
SeededCategory(ci, n, seed) ==
    JeopardyCategory(<<"C", ToString(ci)>>,
        [k \in 1..n |->
            MakeAnswer(ci, k - 1, seed, (ci + 2 * (k - 1) + seed) % 3 = 0)])

\* the games is_valid is applied to: nc categories of CategoryAnswers answers,
\* except that those in odd have n answers
ValidityGames ==
    {JeopardyGame([k \in 1..nc |->
            SeededCategory(k - 1, IF k \in odd THEN n ELSE CategoryAnswers, seed)]) :
        nc \in 0..MaxCats, odd \in SUBSET (1..MaxCats), n \in 0..MaxAns,
        seed \in 0..3}

\* each behaviour applies one is_valid call to its input
InitValid ==
    /\ game \in ValidityGames
    /\ GameIdle
    /\ result = NoResult
    /\ CliIdle

\* JeopardyGame::is_valid
CheckGame ==
    /\ result = NoResult
    /\ result' = [fn |-> "game", value |-> GameIsValid(game)]
    /\ UNCHANGED <<gameVars, cliVars>>

\* JeopardyCategory::is_valid on category ci
CheckCategory(ci) ==
    /\ result = NoResult
    /\ result' = [fn |-> "category", cat |-> ci,
                  value |-> CategoryIsValid(game.categories[ci + 1])]
    /\ UNCHANGED <<gameVars, cliVars>>

\* JeopardyAnswer::is_valid on answer ai of category ci
CheckAnswer(ci, ai) ==
    /\ result = NoResult
    /\ result' = [fn |-> "answer",
                  answer |-> game.categories[ci + 1].answers[ai + 1],
                  value |-> AnswerIsValid(game.categories[ci + 1].answers[ai + 1])]
    /\ UNCHANGED <<gameVars, cliVars>>

NextValid ==
    \/ CheckGame
    \/ \E ci \in 0..(Len(game.categories) - 1) : CheckCategory(ci)
    \/ \E ci \in 0..(Len(game.categories) - 1) :
         \E ai \in 0..(Len(game.categories[ci + 1].answers) - 1) :
            CheckAnswer(ci, ai)

SpecValid == InitValid /\ [][NextValid]_vars

(***************************************************************************)
(* Formatting: Display for ToolError, derive(Debug), println!("{:?}").     *)
(***************************************************************************)
RECURSIVE Concat(_)
\* the text made of the pieces of ss, in order
Concat(ss) == IF ss = <<>> THEN "" ELSE Head(ss) \o Concat(Tail(ss))

RECURSIVE Join(_, _)
\* the pieces of ss separated by sep
Join(ss, sep) ==
    IF ss = <<>> THEN ""
    ELSE IF Len(ss) = 1 THEN Head(ss)
    ELSE Head(ss) \o sep \o Join(Tail(ss), sep)

\* {} of a String
DisplayString(str) == Concat(str)

\* char::escape_debug inside a string literal, on the characters modelled
EscapeDebug(ch) ==
    CASE ch = "\"" -> "\\\""
      [] ch = "\\" -> "\\\\"
      [] OTHER -> ch

\* {:?} of a String or PathBuf
DebugString(str) ==
    "\"" \o Concat([k \in 1..Len(str) |-> EscapeDebug(str[k])]) \o "\""

\* {:?} of a bool
DebugBool(b) == IF b THEN "true" ELSE "false"

\* {:?} of an Option<String>
DebugOption(o) ==
    IF o.some THEN "Some(" \o DebugString(o.value) \o ")" ELSE "None"

\* {:?} of a Vec whose elements print as the pieces of ss
DebugVec(ss) == "[" \o Join(ss, ", ") \o "]"

\* derive(Debug) of JeopardyAnswer
DebugAnswer(a) ==
    CASE a.variant = "Text" ->
            "Text { answer: " \o DebugString(a.answer)
            \o ", question: " \o DebugString(a.question)
            \o ", double_jeopardy: " \o DebugBool(a.double_jeopardy) \o " }"
      [] a.variant = "Image" ->
            "Image { question: " \o DebugString(a.question)
            \o ", image: " \o DebugString(a.image)
            \o ", double_jeopardy: " \o DebugBool(a.double_jeopardy) \o " }"
      [] a.variant = "Audio" ->
            "Audio { question: " \o DebugString(a.question)
            \o ", audio: " \o DebugString(a.audio)
            \o ", double_jeopardy: " \o DebugBool(a.double_jeopardy) \o " }"
      [] a.variant = "Video" ->
            "Video { question: " \o DebugString(a.question)
            \o ", video: " \o DebugString(a.video)
            \o ", double_jeopardy: " \o DebugBool(a.double_jeopardy) \o " }"

\* derive(Debug) of JeopardyCategory
DebugCategory(c) ==
    "JeopardyCategory { name: " \o DebugString(c.name) \o ", answers: "
    \o DebugVec([k \in 1..Len(c.answers) |-> DebugAnswer(c.answers[k])]) \o " }"

\* derive(Debug) of JeopardyGame
DebugGame(g) ==
    "JeopardyGame { categories: "
    \o DebugVec([k \in 1..Len(g.categories) |-> DebugCategory(g.categories[k])])
    \o " }"

\* ToolError::Other(e)
Other(e) == [kind |-> "Other", message |-> e]

\* impl fmt::Display for ToolError
DisplayError(e) ==
    CASE e.kind = "Other" -> "Some other error: " \o DisplayString(e.message)

\* ToolResult::Ok(()) and ToolResult::Err(e)
Ok == [tag |-> "Ok"]

Err(e) == [tag |-> "Err", error |-> e]

\* variant of ReportStatus: every result reports success
ReportStatusSuccess(r) == "SUCCESS"

\* the ExitCode of impl Termination for ToolResult: report
ReportStatus(r) ==
    CASE r.tag = "Ok" -> "SUCCESS"
      [] r.tag = "Err" -> "FAILURE"

\* what report writes to standard error
ReportOutput(r) ==
    CASE r.tag = "Ok" -> <<>>
      [] r.tag = "Err" -> <<DisplayError(r.error)>>

(***************************************************************************)
(* SpecCli: the process, from the parsed command line to its exit.         *)
(***************************************************************************)
MaxText == 4     \* longest prefix or error message

Alphabet == {"a", "\"", "\\"}

\* the Strings of at most n characters
Strings(n) == UNION {[1..k -> Alphabet] : k \in 0..n}

None == [some |-> FALSE]

Some(v) == [some |-> TRUE, value |-> v]

\* "Some error".to_string()
SomeError == <<"S", "o", "m", "e", " ", "e", "r", "r", "o", "r">>

\* enum CLI as clap parses it
Commands ==
    {[sub |-> "Show", prefix |-> None]}
    \cup {[sub |-> "Show", prefix |-> Some(p)] : p \in Strings(MaxText)}
    \cup {[sub |-> "Create"], [sub |-> "Convert"]}

InitCli ==
    /\ game = NewGame
    /\ GameIdle
    /\ result = NoResult
    /\ pc = "main"
    /\ cmd \in Commands
    /\ shown = NewGame
    /\ ret = [tag |-> "none"]
    /\ stdout = <<>>
    /\ stderr = <<>>
    /\ status = "running"

\* main.rs:26  CLI::Show(show) => jeopardytool::show(show.prefix)
MainShow ==
    /\ pc = "main"
    /\ cmd.sub = "Show"
    /\ pc' = "show_print_prefix"
    /\ UNCHANGED <<gameVars, result, cmd, shown, ret, stdout, stderr, status>>

\* main.rs:27-28  todo!(): the thread panics, the process exits with 101
MainTodo ==
    /\ pc = "main"
    /\ cmd.sub \in {"Create", "Convert"}
    /\ stderr' = Append(stderr,
                    IF cmd.sub = "Create"
                    THEN "not yet implemented: subcommand create"
                    ELSE "not yet implemented: subcommand convert")
    /\ status' = "PANIC"
    /\ pc' = "exited"
    /\ UNCHANGED <<gameVars, result, cmd, shown, ret, stdout>>

\* lib.rs:152  println!("{:?}", prefix)
ShowPrintPrefix ==
    /\ pc = "show_print_prefix"
    /\ stdout' = Append(stdout, DebugOption(cmd.prefix))
    /\ pc' = "show_new"
    /\ UNCHANGED <<gameVars, result, cmd, shown, ret, stderr, status>>

\* lib.rs:153  let mut jeopardy_game = JeopardyGame::new()
ShowNew ==
    /\ pc = "show_new"
    /\ shown' = NewGame
    /\ pc' = "show_print_game"
    /\ UNCHANGED <<gameVars, result, cmd, ret, stdout, stderr, status>>

\* lib.rs:154  println!("{:?}", jeopardy_game)
ShowPrintGame ==
    /\ pc = "show_print_game"
    /\ stdout' = Append(stdout, DebugGame(shown))
    /\ pc' = "show_print_valid"
    /\ UNCHANGED <<gameVars, result, cmd, shown, ret, stderr, status>>

\* lib.rs:155  println!("{:?}", jeopardy_game.is_valid())
ShowPrintValid ==
    /\ pc = "show_print_valid"
    /\ stdout' = Append(stdout, DebugBool(GameIsValid(shown)))
    /\ pc' = "show_double_jeopardy"
    /\ UNCHANGED <<gameVars, result, cmd, shown, ret, stderr, status>>

\* lib.rs:156  jeopardy_game.double_jeopardy()
ShowDoubleJeopardy ==
    /\ pc = "show_double_jeopardy"
    /\ \E sel \in GameSelections(shown) :
         \E tr \in Invocations(shown, sel) :
            shown' = GameDoubleJeopardy(shown, tr)
    /\ pc' = "show_return"
    /\ UNCHANGED <<gameVars, result, cmd, ret, stdout, stderr, status>>

\* lib.rs:157  ToolResult::Err(ToolError::Other("Some error".to_string()))
ShowReturn ==
    /\ pc = "show_return"
    /\ ret' = Err(Other(SomeError))
    /\ pc' = "returned"
    /\ UNCHANGED <<gameVars, result, cmd, shown, stdout, stderr, status>>

\* impl Termination for ToolResult: report, then the process exits
Report ==
    /\ pc = "returned"
    /\ stderr' = stderr \o ReportOutput(ret)
    /\ status' = ReportStatus(ret)
    /\ pc' = "exited"
    /\ UNCHANGED <<gameVars, result, cmd, shown, ret, stdout>>

NextCli ==
    \/ MainShow
    \/ MainTodo
    \/ ShowPrintPrefix
    \/ ShowNew
    \/ ShowPrintGame
    \/ ShowPrintValid
    \/ ShowDoubleJeopardy
    \/ ShowReturn
    \/ Report

SpecCli == InitCli /\ [][NextCli]_vars

(***************************************************************************)
(* SpecReport: report applied to every ToolResult.                         *)
(***************************************************************************)
ToolResults == {Ok} \cup {Err(Other(m)) : m \in Strings(MaxText)}

InitReport ==
    /\ game = NewGame
    /\ GameIdle
    /\ result = NoResult
    /\ pc = "returned"
    /\ cmd = [sub |-> "none"]
    /\ shown = NewGame
    /\ ret \in ToolResults
    /\ stdout = <<>>
    /\ stderr = <<>>
    /\ status = "running"

NextReport == Report

SpecReport == InitReport /\ [][NextReport]_vars

(***************************************************************************)
(* Properties.                                                             *)
(***************************************************************************)
\* positions (1-based) of the flagged answers of category c
Flagged(c) == {k \in 1..Len(c.answers) : c.answers[k].double_jeopardy}

FlagCount(c) == Cardinality(Flagged(c))

\* (category, answer) positions of the flagged answers of game g
FlaggedCells(g) ==
    {cell \in UNION {{<<k, j>> : j \in 1..Len(g.categories[k].answers)} :
                        k \in 1..Len(g.categories)} :
        g.categories[cell[1]].answers[cell[2]].double_jeopardy}

TotalFlagged(g) == Cardinality(FlaggedCells(g))

\* g has exactly nc categories of exactly na answers each
HasShape(g, nc, na) ==
    /\ Len(g.categories) = nc
    /\ \A k \in 1..Len(g.categories) : Len(g.categories[k].answers) = na

\* g with every flag cleared: what is left is names, order, variants, payload
Unflag(g) ==
    [categories |->
        [k \in 1..Len(g.categories) |->
            [name |-> g.categories[k].name,
             answers |->
                [j \in 1..Len(g.categories[k].answers) |->
                    [g.categories[k].answers[j] EXCEPT !.double_jeopardy = FALSE]]]]]

VariantsOf(c) == {c.answers[k].variant : k \in 1..Len(c.answers)}

\* category indices (0-based) the invocations tr were made on
Touched(tr) == {tr[i].cat : i \in 1..Len(tr)}

\* the step is a call of JeopardyGame::double_jeopardy
IsGameCall == op' = "game" /\ calls' = calls + 1

\* the step is a call of JeopardyCategory::double_jeopardy from outside
IsCategoryCall == op' = "category" /\ calls' = calls + 1

\* C1: JeopardyGame::is_valid returns true exactly for the games of 5
\* categories of 5 answers each, whatever the variants and flags.
C1_GameValidIffFiveByFive ==
    result.fn = "game" => (result.value <=> HasShape(game, 5, 5))

C1_Witness ==
    /\ result.fn = "game"
    /\ result.value = TRUE
    /\ HasShape(game, 5, 5)
    /\ VariantsOf(game.categories[1]) = {"Text", "Image", "Audio", "Video"}
    /\ TotalFlagged(game) > 0
    /\ TotalFlagged(game) < 25

C3_TwoOfTwentyFive ==
    [][(IsGameCall /\ game = ScenarioBoard) =>
        /\ GameIsValid(game)
        /\ TotalFlagged(game') = 2
        /\ \A k \in 1..Len(game'.categories) :
              FlagCount(game'.categories[k]) <= 2]_vars

\* C4: no double_jeopardy call, of a game or of a category, clears a flag: an
\* answer flagged before the call is flagged after it.
C4_FlagsMonotone ==
    [][/\ Len(game'.categories) = Len(game.categories)
       /\ \A k \in 1..Len(game.categories) :
             Flagged(game.categories[k]) \subseteq Flagged(game'.categories[k])]_vars

C4_Witness ==
    /\ calls >= 2
    /\ \E k \in 1..Len(game.categories) : FlagCount(game.categories[k]) > 2

\* C5: JeopardyCategory::is_valid returns true exactly for the categories of
\* 5 answers, and JeopardyAnswer::is_valid returns true for every answer.
C5_CategoryValidIffFive ==
    /\ result.fn = "category" =>
          (result.value <=> Len(game.categories[result.cat + 1].answers) = 5)
    /\ result.fn = "answer" => result.value = TRUE

C5_Witness ==
    /\ result.fn = "category"
    /\ result.value = TRUE
    /\ VariantsOf(game.categories[result.cat + 1])
          = {"Text", "Image", "Audio", "Video"}
    /\ FlagCount(game.categories[result.cat + 1]) \in 1..4

\* C6: report turns Ok into the success status with nothing on standard
\* error, and Err into the error's message on standard error and the failure
\* status; nothing is written and no status is set before report runs.
C6_StatusFollowsResult ==
    /\ pc = "returned" => (stderr = <<>> /\ status = "running")
    /\ (pc = "exited" /\ ret.tag = "Ok") =>
          (status = "SUCCESS" /\ stderr = <<>>)
    /\ (pc = "exited" /\ ret.tag = "Err") =>
          /\ status = "FAILURE"
          /\ stderr = <<"Some other error: " \o Concat(ret.error.message)>>

C6_Witness ==
    /\ pc = "exited"
    /\ ret = Err(Other(<<"a", "\"">>))
    /\ status = "FAILURE"
    /\ stderr = <<"Some other error: a\"">>

\* the statements of show, in order, and what follows them
ShowOrder ==
    <<"show_print_prefix", "show_new", "show_print_game", "show_print_valid",
      "show_double_jeopardy", "show_return", "returned", "exited">>

\* pc is at or past position p of ShowOrder
Reached(p) ==
    \E i, j \in 1..Len(ShowOrder) :
        ShowOrder[i] = p /\ ShowOrder[j] = pc /\ i <= j

\* C7: for every prefix, show prints the prefix, the empty game and false,
\* then runs double_jeopardy on the empty game, which stays empty, then returns
\* the fixed error; the process exits with the failure status, never success.
C7_ShowAlwaysFails ==
    cmd.sub = "Show" =>
        /\ status # "SUCCESS"
        /\ shown = [categories |-> <<>>]
        /\ stdout = SubSeq(<<DebugOption(cmd.prefix),
                             "JeopardyGame { categories: [] }",
                             "false">>,
                           1, Len(stdout))
        /\ Reached("show_new") => Len(stdout) >= 1
        /\ Reached("show_print_valid") => Len(stdout) >= 2
        /\ Reached("show_double_jeopardy") => Len(stdout) = 3
        /\ ~Reached("returned") => (ret.tag = "none" /\ stderr = <<>>)
        /\ Reached("returned") =>
              ret = [tag |-> "Err",
                     error |-> [kind |-> "Other", message |-> SomeError]]
        /\ pc = "exited" =>
              (status = "FAILURE" /\ stderr = <<"Some other error: Some error">>)

C7_Witness ==
    /\ pc = "exited"
    /\ cmd.sub = "Show"
    /\ cmd.prefix = Some(<<"a", "\"", "\\">>)
    /\ stdout = <<"Some(\"a\\\"\\\\\")", "JeopardyGame { categories: [] }", "false">>
    /\ stderr = <<"Some other error: Some error">>
    /\ status = "FAILURE"

\* C8: a JeopardyGame::double_jeopardy call on a game of N categories invokes
\* the category mutation on exactly min(2, N) pairwise distinct indices, all
\* in range, and leaves every other category as it was.
C8_GameCallTouchesMinTwo ==
    [][IsGameCall =>
        LET N == Len(game.categories)
        IN  /\ Len(trace') = Min(2, N)
            /\ Cardinality(Touched(trace')) = Len(trace')
            /\ Touched(trace') \subseteq 0..(N - 1)
            /\ Len(game'.categories) = N
            /\ \A k \in 0..(N - 1) :
                  IF k \in Touched(trace')
                  THEN Flagged(game'.categories[k + 1])
                          = Flagged(game.categories[k + 1])
                            \cup UNION {{trace'[i].picks[j] + 1 :
                                            j \in 1..Len(trace'[i].picks)} :
                                         i \in {h \in 1..Len(trace') :
                                                   trace'[h].cat = k}}
                  ELSE game'.categories[k + 1] = game.categories[k + 1]]_vars

C8_Witness ==
    /\ op = "game"
    /\ calls = 1
    /\ Len(game.categories) = 1
    /\ Len(trace) = 1
    /\ FlagCount(game.categories[1]) = 2

\* C9: a JeopardyCategory::double_jeopardy call on a category of n
\* answers picks exactly min(2, n) pairwise distinct answer indices, all in
\* range, and flags exactly those, whatever their variant: the flagged answers
\* afterwards are those flagged before plus the picked ones, so from an
\* unflagged category exactly min(2, n) are flagged and the count grows by at
\* most 2.
C9_CategoryCallFlagsMinTwo ==
    [][IsCategoryCall =>
        LET ci == trace'[1].cat
            picks == trace'[1].picks
            old == game.categories[ci + 1]
            new == game'.categories[ci + 1]
            n == Len(old.answers)
            picked == {picks[i] + 1 : i \in 1..Len(picks)}
        IN  /\ Len(trace') = 1
            /\ Len(picks) = Min(2, n)
            /\ Cardinality(picked) = Len(picks)
            /\ picked \subseteq 1..n
            /\ Len(new.answers) = n
            /\ Flagged(new) = Flagged(old) \cup picked
            /\ FlagCount(old) = 0 => FlagCount(new) = Min(2, n)
            /\ FlagCount(new) <= FlagCount(old) + 2]_vars

C9_Witness ==
    /\ op = "category"
    /\ calls = 1
    /\ Len(game.categories[trace[1].cat + 1].answers) = 1
    /\ FlagCount(game.categories[trace[1].cat + 1]) = 1

\* C10: a double_jeopardy call changes flags only: categories, names, answers,
\* their order, variants, questions and payloads stay, and so does is_valid.
C10_OnlyFlagsChange ==
    [][/\ Unflag(game') = Unflag(game)
       /\ GameIsValid(game') = GameIsValid(game)]_vars

C10_Witness ==
    /\ op = "category"
    /\ GameIsValid(game)
    /\ TotalFlagged(game) = 2
    /\ game # Unflag(game)

====
